---- MODULE Spec2Model ----
(***************************************************************************)
(* Clinical-trial report generator (refactored_code.py).                   *)
(*                                                                         *)
(* A DataFrame is modelled as a record                                     *)
(*     [columns : SUBSET Columns, rows : Seq([columns -> Cell])]           *)
(* A Cell is <<>> for a missing value (NaN) and <<v>> for the value v.     *)
(* A call either returns a value or raises; both are a record              *)
(*     [status : {"returned", "FileNotFoundError", ...}, value : ...].     *)
(* A float is the exact rational [num, den] in lowest terms; NaN is 0/0.   *)
(***************************************************************************)
EXTENDS Integers, Sequences, FiniteSets, TLC

VARIABLES file, data, pc, responsive_patients, survival_stats, output, retval, error

vars == <<file, data, pc, responsive_patients, survival_stats, output, retval, error>>

(***************************  module constants  ****************************)
AGE_THRESHOLD == 50

TARGET_CANCER_TYPE == "Lung"

TREATMENT_GROUP == "Treatment_A"

CONTROL_GROUP == "Control"

(*******************************  bounds  **********************************)
\* Longest dataset, in rows.
MaxRows == 2

\* Most columns a dataset may lack.
MaxMissing == 1

\* Most missing values (NaN cells) in one dataset.
MaxNulls == 1

(***************************  values and results  **************************)
Null == << >>

Some(v) == <<v>>

IsNull(cell) == cell = Null

Pending == [status |-> "pending", value |-> << >>]

Return(v) == [status |-> "returned", value |-> v]

Raise(e) == [status |-> e, value |-> << >>]

RECURSIVE Gcd(_, _)
Gcd(a, b) == IF b = 0 THEN a ELSE Gcd(b, a % b)

\* The float n/d (d > 0), exactly.
Rat(n, d) == [num |-> n \div Gcd(n, d), den |-> d \div Gcd(n, d)]

NaN == [num |-> 0, den |-> 0]

Zero == [num |-> 0, den |-> 1]

(******************************  DataFrame  ********************************)
Columns ==
    {"patient_id", "age", "cancer_type", "baseline_tumor_size",
     "final_tumor_size", "treatment", "survival_months"}

NRows(df) == Len(df.rows)

\* data[c]: the column as a series of cells.  The caller checks c is present.
Column(df, c) == [i \in 1..NRows(df) |-> df.rows[i][c]]

\* Ge with the threshold itself left out (> for >=).
Ge_Strict(series, k) == [i \in DOMAIN series |-> ~IsNull(series[i]) /\ series[i][1] > k]

\* series >= k, elementwise; a comparison with NaN is False.
Ge(series, k) == [i \in DOMAIN series |-> ~IsNull(series[i]) /\ series[i][1] >= k]

\* series == s, elementwise; NaN equals nothing.
Eq(series, s) == [i \in DOMAIN series |-> series[i] = Some(s)]

\* Lt with a missing left value ordered below every number.
Lt_NullLow(left, right) ==
    [i \in DOMAIN left |->
        /\ ~IsNull(right[i])
        /\ (IsNull(left[i]) \/ left[i][1] < right[i][1])]

\* left < right, elementwise; a comparison with NaN is False.
Lt(left, right) ==
    [i \in DOMAIN left |->
        /\ ~IsNull(left[i])
        /\ ~IsNull(right[i])
        /\ left[i][1] < right[i][1]]

\* m1 & m2
And(m1, m2) == [i \in DOMAIN m1 |-> m1[i] /\ m2[i]]

\* The indices a boolean mask selects, ascending.
Selected(mask) == SelectSeq([i \in DOMAIN mask |-> i], LAMBDA i : mask[i])

\* data[mask]: a new frame with the selected rows in their order.
BoolIndex(df, mask) ==
    [columns |-> df.columns,
     rows    |-> [k \in 1..Len(Selected(mask)) |-> df.rows[Selected(mask)[k]]]]

\* series.tolist(): a missing value stays in the list, as NaN.
ToList(series) == [i \in DOMAIN series |-> series[i]]

(*************************  get_responsive_patients  ***********************)
FilterColumns == {"age", "cancer_type", "final_tumor_size", "baseline_tumor_size"}

ResponsiveMask(df) ==
    And(And(Ge(Column(df, "age"), AGE_THRESHOLD),
            Eq(Column(df, "cancer_type"), TARGET_CANCER_TYPE)),
        Lt(Column(df, "final_tumor_size"), Column(df, "baseline_tumor_size")))

\* get_responsive_patients that looks at no column of a frame without rows.
get_responsive_patients_Lazy(df) ==
    IF NRows(df) = 0
    THEN Return(<< >>)
    ELSE IF ~(FilterColumns \cup {"patient_id"} \subseteq df.columns)
    THEN Raise("KeyError")
    ELSE Return(ToList(Column(BoolIndex(df, ResponsiveMask(df)), "patient_id")))

get_responsive_patients(df) ==
    IF ~(FilterColumns \subseteq df.columns)
    THEN Raise("KeyError")
    ELSE LET filtered == BoolIndex(df, ResponsiveMask(df))
         IN  IF "patient_id" \notin filtered.columns
             THEN Raise("KeyError")
             ELSE Return(ToList(Column(filtered, "patient_id")))

(***********************  compute_survival_statistics  *********************)
RECURSIVE SumCells(_)
SumCells(cells) ==
    IF Len(cells) = 0 THEN 0 ELSE Head(cells)[1] + SumCells(Tail(cells))

\* Mean with the missing values counted in the denominator (as zeros).
Mean_CountNulls(cells) ==
    LET vals == SelectSeq(cells, LAMBDA c : ~IsNull(c))
    IN  IF Len(cells) = 0 THEN NaN ELSE Rat(SumCells(vals), Len(cells))

\* Series.mean(): missing values are skipped; the mean of no values is NaN.
Mean(cells) ==
    LET vals == SelectSeq(cells, LAMBDA c : ~IsNull(c))
    IN  IF Len(vals) = 0 THEN NaN ELSE Rat(SumCells(vals), Len(vals))

\* data.groupby(key): the group labels.  Rows whose key is NaN are dropped.
GroupKeys(df, key) ==
    {df.rows[i][key][1] : i \in {j \in 1..NRows(df) : ~IsNull(df.rows[j][key])}}

\* GroupRows without the grouping: every row is in every group.
GroupRows_All(df, key, k) == Selected([i \in 1..NRows(df) |-> TRUE])

\* The rows of group k, in their order.
GroupRows(df, key, k) == Selected(Eq(Column(df, key), k))

\* data.groupby(key)[col] for group k: the cells of col in the rows of the group.
GroupCells(df, key, k, col) ==
    [n \in 1..Len(GroupRows(df, key, k)) |-> df.rows[GroupRows(df, key, k)[n]][col]]

\* data.groupby(key)[col].mean(): a series indexed by group label.
GroupMean(df, key, col) ==
    [k \in GroupKeys(df, key) |-> Mean(GroupCells(df, key, k, col))]

\* Get that yields a missing value, not the default, for an absent label.
Get_NoDefault(series, label, default) ==
    IF label \in DOMAIN series THEN series[label] ELSE NaN

\* Series.get(label, default)
Get(series, label, default) ==
    IF label \in DOMAIN series THEN series[label] ELSE default

\* compute_survival_statistics with every row that is not in the treatment
\* group counted as control.
compute_survival_statistics_RestIsControl(df) ==
    IF "treatment" \notin df.columns
    THEN Raise("KeyError")
    ELSE IF "survival_months" \notin df.columns
    THEN Raise("KeyError")
    ELSE LET grouped == GroupMean(df, "treatment", "survival_months")
             rest    == Selected([i \in 1..NRows(df) |->
                                     df.rows[i]["treatment"] # Some(TREATMENT_GROUP)])
         IN  Return([avg_survival_treatment_group |-> Get(grouped, TREATMENT_GROUP, Zero),
                     avg_survival_control         |->
                         IF Len(rest) = 0 THEN Zero
                         ELSE Mean([n \in 1..Len(rest) |->
                                       df.rows[rest[n]]["survival_months"]])])

compute_survival_statistics(df) ==
    IF "treatment" \notin df.columns
    THEN Raise("KeyError")
    ELSE IF "survival_months" \notin df.columns
    THEN Raise("KeyError")
    ELSE LET grouped == GroupMean(df, "treatment", "survival_months")
         IN  Return([avg_survival_treatment_group |-> Get(grouped, TREATMENT_GROUP, Zero),
                     avg_survival_control         |-> Get(grouped, CONTROL_GROUP, Zero)])

(****************************  load_clinical_data  *************************)
\* pd.read_csv: the path names no file, a file that is not a table, or a table.
load_clinical_data(f) ==
    CASE f.kind = "missing"   -> Raise("FileNotFoundError")
      [] f.kind = "malformed" -> Raise("ParserError")
      [] f.kind = "csv"       -> Return(f.frame)

(*****************************  input datasets  ****************************)
Restrict(r, cols) == [c \in cols |-> r[c]]

\* Every frame with the columns cols and at most MaxRows rows drawn from rowSet.
Frames(cols, rowSet) ==
    {[columns |-> cols, rows |-> rs] :
        rs \in UNION {[1..n -> {Restrict(r, cols) : r \in rowSet}] : n \in 0..MaxRows}}

NullAt(df, i, c) ==
    IF i <= NRows(df) /\ c \in df.columns
    THEN [df EXCEPT !.rows[i][c] = Null]
    ELSE df

\* The frame df with up to k cells of the columns cols made NaN.
RECURSIVE WithNulls(_, _, _)
WithNulls(df, cols, k) ==
    IF k = 0 THEN {df}
    ELSE LET P == WithNulls(df, cols, k - 1)
         IN  P \cup {NullAt(d, i, c) : d \in P, i \in 1..MaxRows, c \in cols}

MissingSets == {M \in SUBSET Columns : Cardinality(M) <= MaxMissing}

\* Rows that exercise every predicate of the filter.
FilterRows ==
    [patient_id          : {Some("P1"), Some("P2")},
     age                 : {Some(AGE_THRESHOLD - 1), Some(AGE_THRESHOLD)},
     cancer_type         : {Some(TARGET_CANCER_TYPE), Some("Breast")},
     baseline_tumor_size : {Some(2)},
     final_tumor_size    : {Some(1), Some(2), Some(3)},
     treatment           : {Some(CONTROL_GROUP)},
     survival_months     : {Some(10)}]

\* Rows that exercise the grouping and the mean.
AggregatorRows ==
    [patient_id          : {Some("P1")},
     age                 : {Some(AGE_THRESHOLD)},
     cancer_type         : {Some(TARGET_CANCER_TYPE)},
     baseline_tumor_size : {Some(2)},
     final_tumor_size    : {Some(1)},
     treatment           : {Some(TREATMENT_GROUP), Some(CONTROL_GROUP), Some("Treatment_B")},
     survival_months     : {Some(10), Some(20), Some(25)}]

\* Rows for whole runs, over frames that may lack columns.
TrialRows ==
    [patient_id          : {Some("P1"), Some("P2")},
     age                 : {Some(AGE_THRESHOLD - 1), Some(AGE_THRESHOLD)},
     cancer_type         : {Some(TARGET_CANCER_TYPE)},
     baseline_tumor_size : {Some(2)},
     final_tumor_size    : {Some(1)},
     treatment           : {Some(TREATMENT_GROUP), Some(CONTROL_GROUP)},
     survival_months     : {Some(10), Some(20)}]

(***********************  analyze_clinical_trial  **************************)
NoData == << >>

Init ==
    /\ \/ file \in {[kind |-> "missing", frame |-> << >>],
                     [kind |-> "malformed", frame |-> << >>]}
       \/ \E M \in MissingSets :
              \E df \in Frames(Columns \ M, TrialRows) :
                  file = [kind |-> "csv", frame |-> df]
    /\ data = NoData
    /\ pc = "load"
    /\ responsive_patients = Pending
    /\ survival_stats = Pending
    /\ output = << >>
    /\ retval = Pending
    /\ error = "none"

\* data = load_clinical_data(file_path)
Load ==
    /\ pc = "load"
    /\ LET r == load_clinical_data(file)
       IN  IF r.status = "returned"
           THEN /\ data' = r.value
                /\ pc' = "filter"
                /\ error' = error
           ELSE /\ data' = data
                /\ pc' = "aborted"
                /\ error' = r.status
    /\ UNCHANGED <<file, responsive_patients, survival_stats, output, retval>>

\* responsive_patients = get_responsive_patients(data)
Filter ==
    /\ pc = "filter"
    /\ LET r == get_responsive_patients(data)
       IN  IF r.status = "returned"
           THEN /\ responsive_patients' = r
                /\ pc' = "aggregate"
                /\ error' = error
           ELSE /\ responsive_patients' = responsive_patients
                /\ pc' = "aborted"
                /\ error' = r.status
    /\ UNCHANGED <<file, data, survival_stats, output, retval>>

\* Aggregate with the aggregator's failure caught and the run carried on to
\* the count line.
Aggregate_Caught ==
    /\ pc = "aggregate"
    /\ LET r == compute_survival_statistics(data)
       IN  IF r.status = "returned"
           THEN /\ survival_stats' = r
                /\ pc' = "print_treatment"
                /\ error' = error
           ELSE /\ survival_stats' = survival_stats
                /\ pc' = "print_count"
                /\ error' = r.status
    /\ UNCHANGED <<file, data, responsive_patients, output, retval>>

\* survival_stats = compute_survival_statistics(data)
Aggregate ==
    /\ pc = "aggregate"
    /\ LET r == compute_survival_statistics(data)
       IN  IF r.status = "returned"
           THEN /\ survival_stats' = r
                /\ pc' = "print_treatment"
                /\ error' = error
           ELSE /\ survival_stats' = survival_stats
                /\ pc' = "aborted"
                /\ error' = r.status
    /\ UNCHANGED <<file, data, responsive_patients, output, retval>>

PrintTreatment ==
    /\ pc = "print_treatment"
    /\ output' = Append(output, <<"Avg survival (Treatment A):",
                                  survival_stats.value.avg_survival_treatment_group>>)
    /\ pc' = "print_control"
    /\ UNCHANGED <<file, data, responsive_patients, survival_stats, retval, error>>

PrintControl ==
    /\ pc = "print_control"
    /\ output' = Append(output, <<"Avg survival (Control):",
                                  survival_stats.value.avg_survival_control>>)
    /\ pc' = "print_count"
    /\ UNCHANGED <<file, data, responsive_patients, survival_stats, retval, error>>

\* PrintCount that prints the number of rows of the dataset.
PrintCount_Rows ==
    /\ pc = "print_count"
    /\ output' = Append(output, <<"Responsive patients:", NRows(data)>>)
    /\ pc' = "return"
    /\ UNCHANGED <<file, data, responsive_patients, survival_stats, retval, error>>

PrintCount ==
    /\ pc = "print_count"
    /\ output' = Append(output, <<"Responsive patients:", Len(responsive_patients.value)>>)
    /\ pc' = "return"
    /\ UNCHANGED <<file, data, responsive_patients, survival_stats, retval, error>>

ReturnPatients ==
    /\ pc = "return"
    /\ retval' = Return(responsive_patients.value)
    /\ pc' = "done"
    /\ UNCHANGED <<file, data, responsive_patients, survival_stats, output, error>>

Next ==
    \/ Load
    \/ Filter
    \/ Aggregate
    \/ PrintTreatment
    \/ PrintControl
    \/ PrintCount
    \/ ReturnPatients

Spec == Init /\ [][Next]_vars

(**************  the two components called directly on a frame  ************)
InitComponents(missing, rowSet, nullable) ==
    /\ \E M \in missing :
           \E base \in Frames(Columns \ M, rowSet) :
               data \in WithNulls(base, nullable, MaxNulls)
    /\ file = [kind |-> "csv", frame |-> data]
    /\ pc = "component"
    /\ responsive_patients = Pending
    /\ survival_stats = Pending
    /\ output = << >>
    /\ retval = Pending
    /\ error = "none"

\* CallFilter with the rows dropped from the caller's frame in place.
CallFilter_InPlace ==
    /\ pc = "component"
    /\ responsive_patients = Pending
    /\ responsive_patients' = get_responsive_patients(data)
    /\ data' = IF FilterColumns \subseteq data.columns
               THEN BoolIndex(data, ResponsiveMask(data))
               ELSE data
    /\ UNCHANGED <<file, pc, survival_stats, output, retval, error>>

\* get_responsive_patients(data); the frame passed in is only read.
CallFilter ==
    /\ pc = "component"
    /\ responsive_patients = Pending
    /\ responsive_patients' = get_responsive_patients(data)
    /\ data' = data
    /\ UNCHANGED <<file, pc, survival_stats, output, retval, error>>

\* compute_survival_statistics(data); the frame passed in is only read.
CallAggregator ==
    /\ pc = "component"
    /\ survival_stats = Pending
    /\ survival_stats' = compute_survival_statistics(data)
    /\ data' = data
    /\ UNCHANGED <<file, pc, responsive_patients, output, retval, error>>

InitFilter == InitComponents({{}}, FilterRows, FilterColumns)

NextFilter == CallFilter

SpecFilter == InitFilter /\ [][NextFilter]_vars

InitAggregator ==
    InitComponents({{}}, AggregatorRows, {"treatment", "survival_months"})

NextAggregator == CallAggregator

SpecAggregator == InitAggregator /\ [][NextAggregator]_vars

InitTrialFrames == InitComponents(MissingSets, TrialRows, {"survival_months"})

NextComponents == CallFilter \/ CallAggregator

SpecComponents == InitTrialFrames /\ [][NextComponents]_vars

(*****************************  properties  ********************************)
\* The row satisfies the three predicates of the Responder Filter.
Responsive(r) ==
    /\ r["age"] # Null
    /\ r["age"][1] >= 50
    /\ r["cancer_type"] = Some("Lung")
    /\ r["final_tumor_size"] # Null
    /\ r["baseline_tumor_size"] # Null
    /\ r["final_tumor_size"][1] < r["baseline_tumor_size"][1]

MatchingRows(df) == {i \in 1..NRows(df) : Responsive(df.rows[i])}

\* The k-th smallest member of a set of row numbers.
Nth(S, k) == CHOOSE i \in S : Cardinality({j \in S : j <= i}) = k

FilterCalled == pc = "component" /\ responsive_patients # Pending

AggregatorCalled == pc = "component" /\ survival_stats # Pending

HasNull(r) == \E c \in FilterColumns : r[c] = Null

\* The frame without the rows that have a missing value in a filter column.
WithoutNullRows(df) ==
    [columns |-> df.columns, rows |-> SelectSeq(df.rows, LAMBDA r : ~HasNull(r))]

\* C9: a row with a missing value in age, cancer_type, final_tumor_size or
\* baseline_tumor_size is never in the result and raises no error; the result
\* is the one the filter gives on the dataset without those rows.
C9_NullRowsAreExcluded ==
    (FilterCalled /\ FilterColumns \cup {"patient_id"} \subseteq data.columns) =>
        /\ responsive_patients.status = "returned"
        /\ responsive_patients = get_responsive_patients(WithoutNullRows(data))
        /\ Len(responsive_patients.value)
              <= Cardinality({i \in 1..NRows(data) : ~HasNull(data.rows[i])})

\* A row that would match but for its missing final_tumor_size, next to a row
\* that matches: only the second is returned.
C9_Witness ==
    /\ FilterCalled
    /\ NRows(data) = 2
    /\ data.rows[1]["final_tumor_size"] = Null
    /\ data.rows[1]["age"] = Some(50)
    /\ data.rows[1]["cancer_type"] = Some("Lung")
    /\ data.rows[1]["patient_id"] = Some("P1")
    /\ responsive_patients = Return(<<Some("P2")>>)

\* The rows whose treatment is exactly the label g.
RowsOf(df, g) == {i \in 1..NRows(df) : df.rows[i]["treatment"] = Some(g)}

\* The rows of S that have a survival_months value.
Known(df, S) == {i \in S : df.rows[i]["survival_months"] # Null}

\* The sum of survival_months over the rows S, all of which have a value.
RECURSIVE SurvivalSum(_, _)
SurvivalSum(df, S) ==
    IF S = {} THEN 0
    ELSE LET i == CHOOSE j \in S : TRUE
         IN  df.rows[i]["survival_months"][1] + SurvivalSum(df, S \ {i})

\* The number m is the quotient total / count.
IsQuotient(m, total, count) == m.den > 0 /\ m.num * count = total * m.den

\* The mean is the sum over the rows S divided by the number of rows of S.
IsMeanOver(m, df, S) == IsQuotient(m, SurvivalSum(df, S), Cardinality(S))

AggregatorColumns == {"treatment", "survival_months"}

AggregatorReturned ==
    /\ AggregatorCalled
    /\ AggregatorColumns \subseteq data.columns
    /\ survival_stats.status = "returned"

C3_AbsentGroupIsZero ==
    (AggregatorCalled /\ AggregatorColumns \subseteq data.columns) =>
        /\ survival_stats.status = "returned"
        /\ RowsOf(data, "Treatment_A") = {}
           => survival_stats.value.avg_survival_treatment_group = Zero
        /\ RowsOf(data, "Control") = {}
           => survival_stats.value.avg_survival_control = Zero

\* Control rows only: the treatment field is 0, the control field is a mean.
C3_Witness ==
    /\ AggregatorReturned
    /\ RowsOf(data, "Treatment_A") = {}
    /\ RowsOf(data, "Control") # {}
    /\ survival_stats.value.avg_survival_treatment_group = Zero
    /\ survival_stats.value.avg_survival_control = Rat(15, 1)

InTrial(r) == r["treatment"] \in {Some("Treatment_A"), Some("Control")}

\* The frame without the rows of any other treatment value.
OnlyTrialGroups(df) ==
    [columns |-> df.columns, rows |-> SelectSeq(df.rows, InTrial)]

\* C8: the result has exactly the two fields, and the rows whose treatment is
\* neither "Treatment_A" nor "Control" change neither of them and raise no
\* error: the result is the one for the dataset without those rows.
C8_OtherTreatmentsAreIgnored ==
    (AggregatorCalled /\ AggregatorColumns \subseteq data.columns) =>
        /\ survival_stats.status = "returned"
        /\ DOMAIN survival_stats.value =
              {"avg_survival_treatment_group", "avg_survival_control"}
        /\ survival_stats = compute_survival_statistics(OnlyTrialGroups(data))

\* A Treatment_B row next to a Control row: the control mean is the Control row's.
C8_Witness ==
    /\ AggregatorReturned
    /\ NRows(data) = 2
    /\ data.rows[1]["treatment"] = Some("Treatment_B")
    /\ data.rows[1]["survival_months"] = Some(25)
    /\ data.rows[2]["treatment"] = Some("Control")
    /\ survival_stats.value.avg_survival_control = Rat(10, 1)

\* C10: a group with at least one survival_months value has as its mean the
\* sum of its values divided by the number of its rows that have a value.
C10_MeanSkipsNulls ==
    (AggregatorCalled /\ AggregatorColumns \subseteq data.columns) =>
        /\ survival_stats.status = "returned"
        /\ Known(data, RowsOf(data, "Treatment_A")) # {}
           => IsMeanOver(survival_stats.value.avg_survival_treatment_group,
                         data, Known(data, RowsOf(data, "Treatment_A")))
        /\ Known(data, RowsOf(data, "Control")) # {}
           => IsMeanOver(survival_stats.value.avg_survival_control,
                         data, Known(data, RowsOf(data, "Control")))

\* Two Treatment_A rows, one without survival_months: the mean is the other's value.
C10_Witness ==
    /\ AggregatorReturned
    /\ Cardinality(RowsOf(data, "Treatment_A")) = 2
    /\ Cardinality(Known(data, RowsOf(data, "Treatment_A"))) = 1
    /\ survival_stats.value.avg_survival_treatment_group = Rat(20, 1)

Labels ==
    <<"Avg survival (Treatment A):", "Avg survival (Control):", "Responsive patients:">>

LoaderSucceeds == load_clinical_data(file).status = "returned"

FilterSucceeds ==
    LoaderSucceeds /\ get_responsive_patients(file.frame).status = "returned"

AggregatorSucceeds ==
    LoaderSucceeds /\ compute_survival_statistics(file.frame).status = "returned"

\* The failure of the first component that fails on this file, "none" if none does.
FirstFailure ==
    IF ~LoaderSucceeds THEN load_clinical_data(file).status
    ELSE IF ~FilterSucceeds THEN get_responsive_patients(file.frame).status
    ELSE IF ~AggregatorSucceeds THEN compute_survival_statistics(file.frame).status
    ELSE "none"

Terminated == ~ENABLED Next

\* C4: no run gives a partial result.  A run ends either with the three
\* components having succeeded and all three lines emitted, or aborted with
\* the failure of the component that failed, with no line emitted and no value
\* returned; a line is only ever emitted in a run where all three succeed.
C4_NoPartialResult ==
    /\ Terminated => pc \in {"done", "aborted"}
    /\ pc = "done" =>
          /\ LoaderSucceeds /\ FilterSucceeds /\ AggregatorSucceeds
          /\ Len(output) = 3
          /\ error = "none"
    /\ pc = "aborted" =>
          /\ error # "none"
          /\ error = FirstFailure
          /\ output = << >>
          /\ retval = Pending
    /\ output # << >> => (LoaderSucceeds /\ FilterSucceeds /\ AggregatorSucceeds)
    /\ FirstFailure # "none" => (output = << >> /\ retval = Pending)

\* The filter succeeded, the aggregator then failed: nothing printed or returned.
C4_Witness ==
    /\ pc = "aborted"
    /\ error = "KeyError"
    /\ responsive_patients.status = "returned"
    /\ Len(responsive_patients.value) = 1
    /\ output = << >>
    /\ retval = Pending

\* C5: a successful run emits exactly the three lines, in the order treatment
\* mean, control mean, count, then returns the filter's result on the loaded
\* dataset; the count printed is the length of the list returned.
C5_ThreeLinesThenTheFilterResult ==
    /\ Len(output) <= 3
    /\ \A k \in 1..Len(output) : output[k][1] = Labels[k]
    /\ retval # Pending => (pc = "done" /\ Len(output) = 3)
    /\ pc = "done" =>
          /\ Len(output) = 3
          /\ output[1][2] =
                compute_survival_statistics(file.frame).value.avg_survival_treatment_group
          /\ output[2][2] =
                compute_survival_statistics(file.frame).value.avg_survival_control
          /\ retval = get_responsive_patients(file.frame)
          /\ retval.status = "returned"
          /\ output[3][2] = Len(retval.value)

\* A finished run over two rows of which one is responsive.
C5_Witness ==
    /\ pc = "done"
    /\ NRows(data) = 2
    /\ Len(retval.value) = 1
    /\ output[3] = <<"Responsive patients:", 1>>
    /\ output[1][2] = Rat(15, 1)

\* C6: the two components only read the dataset.  After either call, and
\* after both in either order, the dataset is the one that was loaded, and each
\* result is the one that component gives on the loaded dataset.
C6_ComponentsOnlyReadTheDataset ==
    pc = "component" =>
        /\ data = file.frame
        /\ responsive_patients # Pending
           => responsive_patients = get_responsive_patients(file.frame)
        /\ survival_stats # Pending
           => survival_stats = compute_survival_statistics(file.frame)

\* Both components have run on a dataset of which the filter keeps one row of two.
C6_Witness ==
    /\ pc = "component"
    /\ NRows(data) = 2
    /\ survival_stats.status = "returned"
    /\ responsive_patients.status = "returned"
    /\ Len(responsive_patients.value) = 1
    /\ survival_stats.value.avg_survival_treatment_group = Rat(15, 1)

\* C7: get_responsive_patients raises the missing-column error and returns
\* nothing when a column it references is absent, compute_survival_statistics
\* when treatment or survival_months is absent, whatever the rows, none
\* included; neither raises for the absence of a column it does not reference.
C7_MissingColumnFails ==
    /\ FilterCalled =>
          /\ (\E c \in {"age", "cancer_type", "final_tumor_size", "baseline_tumor_size"} :
                 c \notin data.columns)
             => responsive_patients = Raise("KeyError")
          /\ ({"age", "cancer_type", "final_tumor_size", "baseline_tumor_size",
               "patient_id"} \subseteq data.columns)
             => responsive_patients.status = "returned"
    /\ AggregatorCalled =>
          /\ ("treatment" \notin data.columns \/ "survival_months" \notin data.columns)
             => survival_stats = Raise("KeyError")
          /\ ({"treatment", "survival_months"} \subseteq data.columns)
             => survival_stats.status = "returned"

\* A dataset without rows and without the age column: the filter raises, the
\* aggregator, which does not read age, returns.
C7_Witness ==
    /\ pc = "component"
    /\ NRows(data) = 0
    /\ "age" \notin data.columns
    /\ responsive_patients = Raise("KeyError")
    /\ survival_stats.status = "returned"

====
